---- MODULE Spec2Model ----
(***************************************************************************)
(* raise_if_slycot_error of slycot/exceptions.py as a state machine.       *)
(*                                                                         *)
(* A docstring is held as the sequence of its lines (the value of          *)
(* docstring.splitlines()); every line is the text of that line, so the    *)
(* regular expressions, str.index, str.isspace, str.strip, str.replace,    *)
(* eval and str.format of the source are operators over strings.           *)
(* One call of the function runs from Call to pc = "done".  The calls of a *)
(* run are all given the same dict object as checkvars: the caller's own,  *)
(* or the default dict of the signature, which the calls that pass no      *)
(* checkvars share.                                                        *)
(***************************************************************************)
EXTENDS Integers, Sequences, FiniteSets, TLC

(***************************************************************************)
(* Python string primitives                                                *)
(***************************************************************************)
CharAt(s, i) == IF i \in 1..Len(s) THEN SubSeq(s, i, i) ELSE ""

Min(a, b) == IF a < b THEN a ELSE b

\* s[:n]
Prefix(s, n) == SubSeq(s, 1, Min(n, Len(s)))

\* s[n:]
Suffix(s, n) == SubSeq(s, n + 1, Len(s))

IsWhite(c) == c \in {" ", "\n", "\t"}

\* str.isspace(): at least one character and all of them whitespace
IsSpace(s) == Len(s) > 0 /\ \A i \in 1..Len(s) : IsWhite(CharAt(s, i))

\* length of the leading whitespace of s, the greedy group (\s*)
RECURSIVE LeadingSpaces(_)
LeadingSpaces(s) ==
    IF Len(s) > 0 /\ IsWhite(CharAt(s, 1)) THEN 1 + LeadingSpaces(Tail(s)) ELSE 0

RECURSIVE TrailingSpaces(_)
TrailingSpaces(s) ==
    IF Len(s) > 0 /\ IsWhite(CharAt(s, Len(s)))
    THEN 1 + TrailingSpaces(SubSeq(s, 1, Len(s) - 1)) ELSE 0

\* str.strip()
Strip(s) ==
    LET a == LeadingSpaces(s)
    IN  IF a = Len(s) THEN "" ELSE SubSeq(s, a + 1, Len(s) - TrailingSpaces(s))

StartsWith(s, p) == Len(s) >= Len(p) /\ SubSeq(s, 1, Len(p)) = p

\* sub in s
Contains(s, sub) ==
    \E i \in 1..(Len(s) - Len(sub) + 1) : SubSeq(s, i, i + Len(sub) - 1) = sub

\* 0-based position of the first occurrence of sub in s, -1 when there is none
\* (str.index raises ValueError there, str.find returns -1)
Find(s, sub) ==
    LET hits == {i \in 1..(Len(s) - Len(sub) + 1) : SubSeq(s, i, i + Len(sub) - 1) = sub}
    IN  IF hits = {} THEN -1 ELSE (CHOOSE i \in hits : \A j \in hits : i <= j) - 1

\* 0-based position of the last occurrence of sub in s, -1 when there is none
RFind(s, sub) ==
    LET hits == {i \in 1..(Len(s) - Len(sub) + 1) : SubSeq(s, i, i + Len(sub) - 1) = sub}
    IN  IF hits = {} THEN -1 ELSE (CHOOSE i \in hits : \A j \in hits : i >= j) - 1

\* s.replace(old, new): non-overlapping occurrences, left to right
RECURSIVE Replace(_, _, _)
Replace(s, old, new) ==
    IF Len(s) < Len(old) THEN s
    ELSE IF StartsWith(s, old) THEN new \o Replace(Suffix(s, Len(old)), old, new)
    ELSE CharAt(s, 1) \o Replace(Tail(s), old, new)

\* s.split(" ") without the empty pieces, i.e. s.split()
RECURSIVE Split(_)
Split(s) ==
    LET t == Strip(s)
        k == Find(t, " ")
    IN  IF t = "" THEN << >>
        ELSE IF k = -1 THEN << t >>
        ELSE << Prefix(t, k) >> \o Split(Suffix(t, k))

(***************************************************************************)
(* The three regular expressions of the parser                             *)
(***************************************************************************)
\* keys of slycot_error_map
ErrorNames == {"SlycotError", "SlycotParameterError", "SlycotArithmeticError"}

\* re.match(r'(\s*)(Slycot(Parameter|Arithmetic)?Error) : e', l):
\* group 2, or "" when the line does not match.  Group 1 is the leading
\* whitespace, of length LeadingSpaces(l).
EMatch(l) ==
    LET r == Suffix(l, LeadingSpaces(l))
    IN  IF StartsWith(r, "SlycotParameterError : e") THEN "SlycotParameterError"
        ELSE IF StartsWith(r, "SlycotArithmeticError : e") THEN "SlycotArithmeticError"
        ELSE IF StartsWith(r, "SlycotError : e") THEN "SlycotError"
        ELSE ""

\* re.match(r'(\s{n,}):(.*):\s*(.*)', l) with n = error_indent + 1.
\* The greedy (.*) of group 2 runs up to the last colon of the line.
IMatch(l, n) ==
    LET k    == LeadingSpaces(l)
        rest == Suffix(l, k + 1)
        j    == RFind(rest, ":")
        tl   == Suffix(rest, j + 1)
    IN  IF k >= n /\ CharAt(l, k + 1) = ":" /\ j >= 0
        THEN [ok |-> TRUE, indent |-> k, infospec |-> Prefix(rest, j),
              text |-> Suffix(tl, LeadingSpaces(tl))]
        ELSE [ok |-> FALSE, indent |-> 0, infospec |-> "", text |-> ""]

\* re.match(r'(\s{n,})(.*)', l) with n = infospec_indent + 1
MMatch(l, n) ==
    LET k == LeadingSpaces(l)
    IN  IF k >= n THEN [ok |-> TRUE, indent |-> k, text |-> Suffix(l, k)]
        ELSE [ok |-> FALSE, indent |-> 0, text |-> ""]

(***************************************************************************)
(* Values and dicts.  A value is an int, a float, the SlycotError("", info) *)
(* object bound to e (v is its info attribute), or the builtins module     *)
(* that eval stores under "__builtins__" in the dict it is given as        *)
(* globals.                                                                *)
(***************************************************************************)
IntVal(n) == [t |-> "int", v |-> n]
\* a float of integral value n
FloatVal(n) == [t |-> "float", v |-> n]
ErrVal(n) == [t |-> "err", v |-> n]
BuiltinsVal == [t |-> "builtins", v |-> 0]

\* d[k] = val
DictSet(d, k, val) == [x \in DOMAIN d \cup {k} |-> IF x = k THEN val ELSE d[x]]

\* what eval(src, d) does to d before it compiles src
EvalGlobals(d) ==
    IF "__builtins__" \in DOMAIN d THEN d ELSE DictSet(d, "__builtins__", BuiltinsVal)

EmptyDict == [x \in {} |-> IntVal(0)]

(***************************************************************************)
(* eval(infospec_, checkvars) for the expressions the docstrings use:      *)
(* comparison chains over integer literals, names, -name and e.info,       *)
(* joined by "and", the tokens separated by blanks.                        *)
(***************************************************************************)
Digits == {"0", "1", "2", "3", "4", "5", "6", "7", "8", "9"}
Letters == {"a", "b", "c", "d", "e", "f", "g", "h", "i", "j", "k", "l", "m",
            "n", "o", "p", "q", "r", "s", "t", "u", "v", "w", "x", "y", "z", "_"}
Keywords == {"and", "or", "not", "in", "is", "if", "else", "for", "lambda"}
CmpOps == {"==", "!=", "<", "<=", ">", ">="}

IsIntTok(s) == Len(s) > 0 /\ \A i \in 1..Len(s) : CharAt(s, i) \in Digits

IsNameTok(s) ==
    /\ Len(s) > 0
    /\ CharAt(s, 1) \in Letters
    /\ \A i \in 1..Len(s) : CharAt(s, i) \in Letters \cup Digits
    /\ s \notin Keywords

DigitVal(c) ==
    CASE c = "0" -> 0 [] c = "1" -> 1 [] c = "2" -> 2 [] c = "3" -> 3 [] c = "4" -> 4
      [] c = "5" -> 5 [] c = "6" -> 6 [] c = "7" -> 7 [] c = "8" -> 8 [] c = "9" -> 9

RECURSIVE ToInt(_)
ToInt(s) ==
    IF Len(s) = 0 THEN 0
    ELSE 10 * ToInt(SubSeq(s, 1, Len(s) - 1)) + DigitVal(CharAt(s, Len(s)))

\* the operand without its unary minus
AtomBase(tok) == IF StartsWith(tok, "-") THEN Tail(tok) ELSE tok

IsAtomTok(tok) ==
    LET b == AtomBase(tok) IN IsIntTok(b) \/ IsNameTok(b) \/ b = "e.info"

\* a comparison chain: operand (operator operand)*
ChainOK(ch) ==
    /\ Len(ch) % 2 = 1
    /\ \A i \in 1..Len(ch) : IF i % 2 = 1 THEN IsAtomTok(ch[i]) ELSE ch[i] \in CmpOps

\* the token sequence cut at every "and"
RECURSIVE SplitAnd(_)
SplitAnd(toks) ==
    LET hits == {i \in 1..Len(toks) : toks[i] = "and"}
        k    == CHOOSE i \in hits : \A j \in hits : i <= j
    IN  IF hits = {} THEN << toks >>
        ELSE << SubSeq(toks, 1, k - 1) >> \o SplitAnd(SubSeq(toks, k + 1, Len(toks)))

\* compile(src, "<string>", "eval") succeeds
SyntaxOK(src) ==
    LET chains == SplitAnd(Split(src))
    IN  \A i \in 1..Len(chains) : ChainOK(chains[i])

\* value of one operand in the globals d; NameError for an unbound name
Operand(tok, d) ==
    LET b    == AtomBase(tok)
        sign == IF StartsWith(tok, "-") THEN -1 ELSE 1
    IN  IF IsIntTok(b) THEN [err |-> "", v |-> sign * ToInt(b)]
        ELSE IF b = "e.info"
             THEN IF "e" \in DOMAIN d THEN [err |-> "", v |-> sign * d["e"].v]
                  ELSE [err |-> "NameError", v |-> 0]
        ELSE IF b \in DOMAIN d THEN [err |-> "", v |-> sign * d[b].v]
        ELSE [err |-> "NameError", v |-> 0]

Compare(a, op, b) ==
    CASE op = "==" -> a = b [] op = "!=" -> a # b [] op = "<" -> a < b
      [] op = "<=" -> a <= b [] op = ">" -> a > b [] op = ">=" -> a >= b

\* a op b op c ...: left is the value of the operand already evaluated; the
\* next operand is evaluated only when every comparison before it was true
RECURSIVE EvalCmp(_, _, _)
EvalCmp(left, ch, d) ==
    IF Len(ch) = 0 THEN "True"
    ELSE LET r == Operand(ch[2], d)
         IN  IF r.err # "" THEN r.err
             ELSE IF ~Compare(left, ch[1], r.v) THEN "False"
             ELSE EvalCmp(r.v, SubSeq(ch, 3, Len(ch)), d)

EvalChain(ch, d) ==
    LET r == Operand(ch[1], d)
    IN  IF r.err # "" THEN r.err
        ELSE IF Len(ch) = 1 THEN (IF r.v # 0 THEN "True" ELSE "False")
        ELSE EvalCmp(r.v, Tail(ch), d)

\* x and y and ...: the first falsy conjunct decides, the rest is not evaluated
RECURSIVE EvalAnd(_, _)
EvalAnd(chains, d) ==
    LET r == EvalChain(Head(chains), d)
    IN  IF r # "True" \/ Len(chains) = 1 THEN r ELSE EvalAnd(Tail(chains), d)

\* truth of eval(src, d), or the exception it raises
Eval(src, d) ==
    IF ~SyntaxOK(src) THEN "SyntaxError" ELSE EvalAnd(SplitAnd(Split(src)), d)

(***************************************************************************)
(* str.format with the dict as keywords: replacement fields {name},        *)
(* {e.info} and {name:width}                                               *)
(***************************************************************************)
RECURSIVE Pad(_, _)
Pad(s, w) == IF Len(s) >= w THEN s ELSE Pad(" " \o s, w)

RECURSIVE Pow10(_)
Pow10(k) == IF k <= 0 THEN 1 ELSE 10 * Pow10(k - 1)

\* the leading digits of a format spec, its width
RECURSIVE LeadingDigits(_)
LeadingDigits(s) ==
    IF Len(s) > 0 /\ CharAt(s, 1) \in Digits THEN 1 + LeadingDigits(Tail(s)) ELSE 0

RECURSIVE StripZeros(_)
StripZeros(s) ==
    IF Len(s) > 0 /\ CharAt(s, Len(s)) = "0" THEN StripZeros(SubSeq(s, 1, Len(s) - 1)) ELSE s

\* round(v / 10^k), halves to even
RoundDiv(v, k) ==
    LET q == v \div Pow10(k)
        r == v % Pow10(k)
    IN  IF 2 * r > Pow10(k) \/ (2 * r = Pow10(k) /\ q % 2 = 1) THEN q + 1 ELSE q

\* format(float(v), ".<p>g") for an integral v >= 0: p significant digits,
\* trailing zeros removed, exponent notation when the exponent is >= p
GFormat(v, p) ==
    LET digits == Len(ToString(v))
        q0     == RoundDiv(v, digits - p)
        carry  == q0 = Pow10(p)
        q      == ToString(IF carry THEN Pow10(p - 1) ELSE q0)
        exp    == IF carry THEN digits ELSE digits - 1
        frac   == StripZeros(Tail(q))
    IN  IF digits <= p THEN ToString(v)
        ELSE CharAt(q, 1) \o (IF frac = "" THEN "" ELSE "." \o frac)
             \o "e+" \o (IF exp < 10 THEN "0" ELSE "") \o ToString(exp)

\* format(val, spec) for specs of the form [width][.precision][g]
FormatValue(val, spec) ==
    LET w     == LeadingDigits(spec)
        width == ToInt(Prefix(spec, w))
        rest  == Suffix(spec, w)
        hasP  == StartsWith(rest, ".")
        pl    == IF hasP THEN LeadingDigits(Tail(rest)) ELSE 0
        prec  == IF hasP THEN ToInt(SubSeq(rest, 2, 1 + pl)) ELSE 6
        type  == IF hasP THEN Suffix(rest, 1 + pl) ELSE rest
        neg   == val.v < 0
        abs   == IF neg THEN -val.v ELSE val.v
        sign  == IF neg THEN "-" ELSE ""
    IN  IF val.t = "err"
        THEN \* str(SlycotError("", info)) is the empty message
             IF spec = "" THEN [err |-> "", s |-> ""] ELSE [err |-> "TypeError", s |-> ""]
        ELSE IF val.t \notin {"int", "float"} \/ (hasP /\ pl = 0)
        THEN [err |-> "TypeError", s |-> ""]
        ELSE IF type = "g"
        THEN [err |-> "", s |-> Pad(sign \o GFormat(abs, IF prec = 0 THEN 1 ELSE prec), width)]
        ELSE IF type = "" /\ ~hasP
        THEN [err |-> "", s |-> Pad(ToString(val.v) \o (IF val.t = "float" THEN ".0" ELSE ""), width)]
        ELSE [err |-> "ValueError", s |-> ""]

\* one replacement field {name}, {name.attr} or {name:spec}
FormatField(field, d) ==
    LET c    == Find(field, ":")
        name == IF c = -1 THEN field ELSE Prefix(field, c)
        spec == IF c = -1 THEN "" ELSE Suffix(field, c + 1)
        dot  == Find(name, ".")
        base == IF dot = -1 THEN name ELSE Prefix(name, dot)
        attr == IF dot = -1 THEN "" ELSE Suffix(name, dot + 1)
    IN  IF base \notin DOMAIN d THEN [err |-> "KeyError", s |-> ""]
        ELSE IF attr = "" THEN FormatValue(d[base], spec)
        ELSE IF attr = "info" /\ d[base].t = "err" THEN FormatValue(IntVal(d[base].v), spec)
        ELSE [err |-> "AttributeError", s |-> ""]

RECURSIVE Format(_, _)
Format(s, d) ==
    LET a == Find(s, "{")
        b == Find(s, "}")
    IN  IF a = -1 /\ b = -1 THEN [err |-> "", s |-> s]
        ELSE IF a = -1 \/ b < a THEN [err |-> "ValueError", s |-> ""]
        ELSE LET f == FormatField(SubSeq(s, a + 2, b), d)
                 r == Format(Suffix(s, b + 1), d)
             IN  IF f.err # "" THEN f
                 ELSE IF r.err # "" THEN r
                 ELSE [err |-> "", s |-> Prefix(s, a) \o f.s \o r.s]

(***************************************************************************)
(* Inputs of the calls                                                     *)
(***************************************************************************)
MaxInfo == 2
MaxArgs == 3
MaxMargin == 1
MaxCalls == 2

\* the info values of the doctest (0, -1, 1, 2, 5) are among them
Infos == (-MaxInfo .. MaxInfo) \cup {5}

ArgNames == << "a", "b", "c", "d", "e", "f" >>
ArgLists == {SubSeq(ArgNames, 1, n) : n \in {0, 1, Min(MaxArgs, Len(ArgNames))}}

\* fun.__doc__ of the doctest
DocExample == <<
    "Example function",
    "",
    "    Raises",
    "    ------",
    "    SlycotArithmeticError : e",
    "        :e.info = 1: Info is 1",
    "        :e.info > 1 and e.info < n:",
    "            Info is {e.info}, which is between 1 and {n}",
    "        :n <= e.info < m:",
    "            {e.info} is between {n} and {m:10.2g}!",
    "    " >>

\* two headers; under each, guards that can be true together, and a last
\* guard over an unbound name
DocKinds == <<
    "Raises",
    "------",
    "SlycotParameterError : e",
    "    :e.info < 0: negative",
    "    :e.info = -1: minus one",
    "SlycotArithmeticError : e",
    "    :e.info > 0: positive",
    "    :e.info = 1: one",
    "    :e.info > k: above" >>

\* a template over an unbound name, and guards whose evaluation can fail
DocUnbound == <<
    "  Raises",
    "  ------",
    "  SlycotError : e",
    "      :e.info = 2: value {k}",
    "      :e.info > 1 and e.info < k: between",
    "      :e.info = = 1: twice",
    "      :e.info = 1: one" >>

\* the reserved guard, and a guard that does not mention e.info
DocReserved == <<
    "  Raises",
    "  ------",
    "  SlycotParameterError : e",
    "      :e.info = -i: argument {i}",
    "  SlycotError : e",
    "      :n > 4: n is {n}" >>

\* a Raises section followed by a line to the left of its title
DocClosed == <<
    "  Raises",
    "  ------",
    "  SlycotError : e",
    "      :e.info = 2: two",
    "Notes",
    "  SlycotError : e",
    "      :e.info < 2: late" >>

\* a message body with an empty line, a line indented more than the first body
\* line, and then a line between the guard's indentation and the body's
DocBody == <<
    "  Raises",
    "  ------",
    "  SlycotError : e",
    "      :e.info = 1: first",
    "          second",
    "",
    "            third",
    "        fourth",
    "          fifth" >>

DocNoTitle == << "Summary", "", "      :e.info = 1: one" >>
DocTitleLast == << "Summary", "  Raises" >>
DocNoUnderline == << "Raises an error", "", "  SlycotError : e", "      :e.info = 1: one" >>
DocNoHeader == << "  Raises", "  ------", "      :e.info = 1: one" >>
DocMidRule == << "  Raises", "  ------", "  SlycotError : e", "      :e.info = 1:" >>

\* the text moved k columns to the right (empty lines stay empty)
Indent(doc, k) == [j \in 1..Len(doc) |-> IF doc[j] = "" THEN "" ELSE Pad("", k) \o doc[j]]

\* << >> stands for docstring=None (and for "", which is as falsy)
Docs == {<< >>, DocExample, DocUnbound, DocReserved, DocClosed,
         DocBody, DocNoTitle, DocTitleLast, DocNoUnderline, DocNoHeader, DocMidRule}
        \cup {Indent(DocKinds, k) : k \in 0..MaxMargin}

\* the dict of the signature, checkvars={}
DefaultVars == EmptyDict

\* dicts a caller passes as checkvars
\* n, m = 4, 1.2e2 of the doctest
VarsNM == [x \in {"n", "m"} |-> IF x = "n" THEN IntVal(4) ELSE FloatVal(120)]
VarsIE == [x \in {"i", "e", "n"} |-> IF x = "i" THEN IntVal(1) ELSE IF x = "e" THEN IntVal(7) ELSE IntVal(5)]
Bindings == {VarsNM, VarsIE}

(***************************************************************************)
(* State                                                                   *)
(***************************************************************************)
VARIABLES
    pc,              \* position in raise_if_slycot_error; "idle" before a call
    info,            \* parameters of the call
    arg_list,
    docstring,
    checkvars,       \* the dict object every call of the run is given
    docline,         \* number of lines the iterator has handed out
    section_indent,  \* locals; -1 and "" stand for not yet bound
    slycot_error,
    error_indent,
    infospec_indent,
    body_indent,
    info_eval,
    message,
    outcome,         \* how the call ended: kind "return" or the exception raised
    entry,           \* checkvars as it was when the call was made
    reached,         \* line numbers of the guard clauses the scan has come to
    evaluated,       \* the guards handed to eval in this call, with what eval gave
    matched,         \* line number of the guard that evaluated true, 0 if none
    ncalls,          \* calls made so far in this run
    orig             \* the caller's bindings before the first call of the run

locals == << docline, section_indent, slycot_error, error_indent,
             infospec_indent, body_indent, info_eval, message >>
params == << info, arg_list, docstring >>
ghost == << entry, reached, evaluated, matched >>
vars == << pc, params, checkvars, locals, outcome, ghost, ncalls, orig >>

NoOutcome == [kind |-> "none", msg |-> "", info |-> 0]
Returned == [kind |-> "return", msg |-> "", info |-> 0]
\* an exception that is not a SlycotError has no info attribute
Raised(kind, msg) == [kind |-> kind, msg |-> msg, info |-> 0]
\* SlycotError.__init__(message, info) of the class named kind
SlycotRaised(kind, msg, i) == [kind |-> kind, msg |-> msg, info |-> i]

Init ==
    /\ pc = "idle"
    /\ info = 0
    /\ arg_list = << >>
    /\ docstring = << >>
    /\ checkvars \in {DefaultVars} \cup Bindings
    /\ docline = 0
    /\ section_indent = -1
    /\ slycot_error = ""
    /\ error_indent = -1
    /\ infospec_indent = -1
    /\ body_indent = -1
    /\ info_eval = FALSE
    /\ message = ""
    /\ outcome = NoOutcome
    /\ entry = EmptyDict
    /\ reached = {}
    /\ evaluated = {}
    /\ matched = 0
    /\ ncalls = 0
    /\ orig = checkvars

\* raise_if_slycot_error(i, a, d) or raise_if_slycot_error(i, a, d, the caller's dict)
Call ==
    /\ pc = "idle"
    /\ ncalls < MaxCalls
    /\ \E i \in Infos, a \in ArgLists, d \in Docs :
        /\ info' = i
        /\ arg_list' = a
        /\ docstring' = d
        /\ pc' = IF d # << >> THEN "title" ELSE "fallback"
    /\ entry' = checkvars
    /\ docline' = 0
    /\ section_indent' = -1
    /\ slycot_error' = ""
    /\ error_indent' = -1
    /\ infospec_indent' = -1
    /\ body_indent' = -1
    /\ info_eval' = FALSE
    /\ message' = ""
    /\ outcome' = NoOutcome
    /\ reached' = {}
    /\ evaluated' = {}
    /\ matched' = 0
    /\ ncalls' = ncalls + 1
    /\ UNCHANGED << checkvars, orig >>

\* next(docline) has a line to hand out
HasNext == docline < Len(docstring)
NextLine == docstring[docline + 1]

Finish(o) == pc' = "done" /\ outcome' = o

(***************************************************************************)
(* while "Raises" not in next(docline): continue                           *)
(***************************************************************************)
TitleSkip ==
    /\ pc = "title" /\ HasNext
    /\ ~Contains(NextLine, "Raises")
    /\ docline' = docline + 1
    /\ UNCHANGED << pc, params, checkvars, section_indent, slycot_error, error_indent,
                    infospec_indent, body_indent, info_eval, message, outcome,
                    ghost, ncalls, orig >>

TitleFound ==
    /\ pc = "title" /\ HasNext
    /\ Contains(NextLine, "Raises")
    /\ docline' = docline + 1
    /\ pc' = "underline"
    /\ UNCHANGED << params, checkvars, section_indent, slycot_error, error_indent,
                    infospec_indent, body_indent, info_eval, message, outcome,
                    ghost, ncalls, orig >>

\* StopIteration out of any next(docline) is caught by the except clause,
\* which falls through to the test of info_eval
Exhausted ==
    /\ pc \in {"title", "underline", "msg_first"} /\ ~HasNext
    /\ pc' = "dispatch"
    /\ UNCHANGED << params, checkvars, locals, outcome, ghost, ncalls, orig >>

(***************************************************************************)
(* section_indent = next(docline).index("-")                               *)
(***************************************************************************)
Underline ==
    /\ pc = "underline" /\ HasNext
    /\ Find(NextLine, "-") # -1
    /\ section_indent' = Find(NextLine, "-")
    /\ docline' = docline + 1
    /\ pc' = "scan"
    /\ UNCHANGED << params, checkvars, slycot_error, error_indent, infospec_indent,
                    body_indent, info_eval, message, outcome, ghost, ncalls, orig >>

\* str.index raises ValueError, which no except clause catches
UnderlineMissing ==
    /\ pc = "underline" /\ HasNext
    /\ Find(NextLine, "-") = -1
    /\ docline' = docline + 1
    /\ Finish(Raised("ValueError", "substring not found"))
    /\ UNCHANGED << params, checkvars, section_indent, slycot_error, error_indent,
                    infospec_indent, body_indent, info_eval, message, ghost, ncalls, orig >>

(***************************************************************************)
(* for l in docline: one action per line                                   *)
(***************************************************************************)
\* the for loop ends when the iterator is exhausted
ScanEnd ==
    /\ pc = "scan" /\ ~HasNext
    /\ pc' = "dispatch"
    /\ UNCHANGED << params, checkvars, locals, outcome, ghost, ncalls, orig >>

\* if not l.strip(): continue
ScanBlank ==
    /\ pc = "scan" /\ HasNext
    /\ Strip(NextLine) = ""
    /\ docline' = docline + 1
    /\ UNCHANGED << pc, params, checkvars, section_indent, slycot_error, error_indent,
                    infospec_indent, body_indent, info_eval, message, outcome,
                    ghost, ncalls, orig >>

\* a line at or to the left of the section's indentation
ClosesSectionAtOrLeft(l, si) == LeadingSpaces(l) <= si

\* not l[:section_indent].isspace()
ClosesSection(l, si) == ~IsSpace(Prefix(l, si))

\* if not l[:section_indent].isspace(): return None
ScanSectionEnd ==
    /\ pc = "scan" /\ HasNext
    /\ Strip(NextLine) # ""
    /\ ClosesSection(NextLine, section_indent)
    /\ docline' = docline + 1
    /\ Finish(Returned)
    /\ UNCHANGED << params, checkvars, section_indent, slycot_error, error_indent,
                    infospec_indent, body_indent, info_eval, message, ghost, ncalls, orig >>

\* a line of the section: the exception type and its indent after the ematch
\* test, then the imatch test against them
InSection == pc = "scan" /\ HasNext /\ Strip(NextLine) # ""
                /\ ~ClosesSection(NextLine, section_indent)
ErrorAfter == IF EMatch(NextLine) # "" THEN EMatch(NextLine) ELSE slycot_error
IndentAfter == IF EMatch(NextLine) # "" THEN LeadingSpaces(NextLine) ELSE error_indent
Guard == IF ErrorAfter # "" THEN IMatch(NextLine, IndentAfter + 1)
         ELSE [ok |-> FALSE, indent |-> 0, infospec |-> "", text |-> ""]

\* the reserved predicate evaluated even when i is unbound
ReservedNever == FALSE

\* if infospec == "e.info = -i": if 'i' not in checkvars.keys(): continue
Reserved == Guard.infospec = "e.info = -i" /\ "i" \notin DOMAIN checkvars

\* infospec_ = infospec.replace(" = ", " == ")
Infospec_ == Replace(Guard.infospec, " = ", " == ")

\* e bound to an error object that carries info - 1
ScopeOneLess == EvalGlobals(DictSet(checkvars, "e", ErrVal(info - 1)))

\* e stored only when the dict has no e yet
ScopeKeepsE ==
    EvalGlobals(IF "e" \in DOMAIN checkvars THEN checkvars
                ELSE DictSet(checkvars, "e", ErrVal(info)))

\* checkvars['e'] = SlycotError("", info), then the dict as eval leaves it
Scope == EvalGlobals(DictSet(checkvars, "e", ErrVal(info)))

\* a header line, or any line that is no guard under a header
ScanLine ==
    /\ InSection
    /\ ~Guard.ok
    /\ slycot_error' = ErrorAfter
    /\ error_indent' = IndentAfter
    /\ docline' = docline + 1
    /\ UNCHANGED << pc, params, checkvars, section_indent, infospec_indent, body_indent,
                    info_eval, message, outcome, ghost, ncalls, orig >>

ScanReserved ==
    /\ InSection
    /\ Guard.ok /\ Reserved
    /\ infospec_indent' = Guard.indent
    /\ reached' = reached \cup {docline + 1}
    /\ docline' = docline + 1
    /\ UNCHANGED << pc, params, checkvars, section_indent, slycot_error, error_indent,
                    body_indent, info_eval, message, outcome, entry, evaluated,
                    matched, ncalls, orig >>

ScanGuardFalse ==
    /\ InSection
    /\ Guard.ok /\ ~Reserved
    /\ Eval(Infospec_, Scope) = "False"
    /\ checkvars' = Scope
    /\ infospec_indent' = Guard.indent
    /\ info_eval' = FALSE
    /\ reached' = reached \cup {docline + 1}
    /\ evaluated' = evaluated \cup {[line |-> docline + 1, result |-> Eval(Infospec_, Scope)]}
    /\ docline' = docline + 1
    /\ UNCHANGED << pc, params, section_indent, slycot_error, error_indent,
                    body_indent, message, outcome, entry, matched, ncalls, orig >>

\* an evaluation error taken as a false guard: the loop goes on to the next line
ScanGuardErrorSkipped ==
    /\ InSection
    /\ Guard.ok /\ ~Reserved
    /\ Eval(Infospec_, Scope) \in {"NameError", "SyntaxError"}
    /\ checkvars' = Scope
    /\ infospec_indent' = Guard.indent
    /\ info_eval' = FALSE
    /\ reached' = reached \cup {docline + 1}
    /\ evaluated' = evaluated \cup {[line |-> docline + 1, result |-> Eval(Infospec_, Scope)]}
    /\ docline' = docline + 1
    /\ UNCHANGED << pc, params, section_indent, slycot_error, error_indent,
                    body_indent, message, outcome, entry, matched, ncalls, orig >>

\* except NameError / except SyntaxError: raise RuntimeError(... + infospec)
ScanGuardError ==
    /\ InSection
    /\ Guard.ok /\ ~Reserved
    /\ Eval(Infospec_, Scope) \in {"NameError", "SyntaxError"}
    /\ checkvars' = Scope
    /\ infospec_indent' = Guard.indent
    /\ reached' = reached \cup {docline + 1}
    /\ evaluated' = evaluated \cup {[line |-> docline + 1, result |-> Eval(Infospec_, Scope)]}
    /\ docline' = docline + 1
    /\ Finish(Raised("RuntimeError",
                     (IF Eval(Infospec_, Scope) = "NameError"
                      THEN "Unknown variable in infospec: "
                      ELSE "Invalid infospec: ") \o Guard.infospec))
    /\ UNCHANGED << params, section_indent, slycot_error, error_indent,
                    body_indent, info_eval, message, entry, matched, ncalls, orig >>

\* a true guard that does not end the scan: the loop goes on to the next line
ScanGuardTrueGoesOn ==
    /\ InSection
    /\ Guard.ok /\ ~Reserved
    /\ Eval(Infospec_, Scope) = "True"
    /\ checkvars' = Scope
    /\ infospec_indent' = Guard.indent
    /\ info_eval' = TRUE
    /\ message' = Strip(Guard.text) \o "\n"
    /\ reached' = reached \cup {docline + 1}
    /\ evaluated' = evaluated \cup {[line |-> docline + 1, result |-> "True"]}
    /\ matched' = docline + 1
    /\ docline' = docline + 1
    /\ UNCHANGED << pc, params, section_indent, slycot_error, error_indent,
                    body_indent, outcome, entry, ncalls, orig >>

\* if info_eval: message = imatch[3].strip() + '\n'
ScanGuardTrue ==
    /\ InSection
    /\ Guard.ok /\ ~Reserved
    /\ Eval(Infospec_, Scope) = "True"
    /\ checkvars' = Scope
    /\ infospec_indent' = Guard.indent
    /\ info_eval' = TRUE
    /\ message' = Strip(Guard.text) \o "\n"
    /\ reached' = reached \cup {docline + 1}
    /\ evaluated' = evaluated \cup {[line |-> docline + 1, result |-> Eval(Infospec_, Scope)]}
    /\ matched' = docline + 1
    /\ docline' = docline + 1
    /\ pc' = "msg_first"
    /\ UNCHANGED << params, section_indent, slycot_error, error_indent,
                    body_indent, outcome, entry, ncalls, orig >>

(***************************************************************************)
(* the message body                                                        *)
(***************************************************************************)
\* mmatch = re.match(..., next(docline)); if not mmatch: break
MsgFirstNone ==
    /\ pc = "msg_first" /\ HasNext
    /\ ~MMatch(NextLine, infospec_indent + 1).ok
    /\ docline' = docline + 1
    /\ pc' = "dispatch"
    /\ UNCHANGED << params, checkvars, section_indent, slycot_error, error_indent,
                    infospec_indent, body_indent, info_eval, message, outcome,
                    ghost, ncalls, orig >>

\* body_indent = len(mmatch[1]); message += mmatch[2] + '\n'
MsgFirst ==
    /\ pc = "msg_first" /\ HasNext
    /\ MMatch(NextLine, infospec_indent + 1).ok
    /\ body_indent' = MMatch(NextLine, infospec_indent + 1).indent
    /\ message' = message \o MMatch(NextLine, infospec_indent + 1).text \o "\n"
    /\ docline' = docline + 1
    /\ pc' = "msg_body"
    /\ UNCHANGED << params, checkvars, section_indent, slycot_error, error_indent,
                    infospec_indent, info_eval, outcome, ghost, ncalls, orig >>

\* the body ended by the first line not deeper than the guard
EndsBodyAtGuard(l, bi) == l # "" /\ ~IsSpace(Prefix(l, infospec_indent + 1))

\* l and not l[:body_indent].isspace()
EndsBody(l, bi) == l # "" /\ ~IsSpace(Prefix(l, bi))

\* message += l[body_indent:] + '\n'
MsgBody ==
    /\ pc = "msg_body" /\ HasNext
    /\ ~EndsBody(NextLine, body_indent)
    /\ message' = message \o Suffix(NextLine, body_indent) \o "\n"
    /\ docline' = docline + 1
    /\ UNCHANGED << pc, params, checkvars, section_indent, slycot_error, error_indent,
                    infospec_indent, body_indent, info_eval, outcome, ghost, ncalls, orig >>

\* break out of the message body, then out of the docstring loop
MsgBodyBreak ==
    /\ pc = "msg_body" /\ HasNext
    /\ EndsBody(NextLine, body_indent)
    /\ docline' = docline + 1
    /\ pc' = "dispatch"
    /\ UNCHANGED << params, checkvars, section_indent, slycot_error, error_indent,
                    infospec_indent, body_indent, info_eval, message, outcome,
                    ghost, ncalls, orig >>

MsgBodyEnd ==
    /\ pc = "msg_body" /\ ~HasNext
    /\ pc' = "dispatch"
    /\ UNCHANGED << params, checkvars, locals, outcome, ghost, ncalls, orig >>

(***************************************************************************)
(* if info_eval and message: raise slycot_error_map[slycot_error](...)     *)
(***************************************************************************)
\* '\n' + message.format(checkvars as keywords).strip()
FMessage == "\n" \o Strip(Format(message, checkvars).s)

Dispatch ==
    /\ pc = "dispatch"
    /\ info_eval /\ message # ""
    /\ Format(message, checkvars).err = ""
    /\ Finish(SlycotRaised(slycot_error, FMessage, info))
    /\ UNCHANGED << params, checkvars, locals, ghost, ncalls, orig >>

\* str.format raises (KeyError for a field that is no key of checkvars)
DispatchFormatError ==
    /\ pc = "dispatch"
    /\ info_eval /\ message # ""
    /\ Format(message, checkvars).err # ""
    /\ Finish(Raised(Format(message, checkvars).err, ""))
    /\ UNCHANGED << params, checkvars, locals, ghost, ncalls, orig >>

NoMatch ==
    /\ pc = "dispatch"
    /\ ~(info_eval /\ message # "")
    /\ pc' = "fallback"
    /\ UNCHANGED << params, checkvars, locals, outcome, ghost, ncalls, orig >>

(***************************************************************************)
(* if info < 0 and arg_list: raise SlycotParameterError(message, info)     *)
(***************************************************************************)
\* arg_list[info]: the subscript counted from the end of the list
ArgIndexFromEnd(i) == i

\* the subscript of arg_list[-info-1]
ArgIndex(i) == -i - 1

\* a[k] of a Python list is defined for -len(a) <= k < len(a) and counts a
\* negative k from the end
InRange(a, k) == -Len(a) <= k /\ k < Len(a)
GetItem(a, k) == IF k >= 0 THEN a[k + 1] ELSE a[Len(a) + k + 1]

\* the fallback taken for status 0 as well
FallbackAppliesNonPositive(i, a) == i <= 0 /\ a # << >>

\* if info < 0 and arg_list
FallbackApplies(i, a) == i < 0 /\ a # << >>

FallbackMessage(a, i) ==
    "The following argument had an illegal value: " \o GetItem(a, ArgIndex(i))

Fallback ==
    /\ pc = "fallback"
    /\ FallbackApplies(info, arg_list)
    /\ InRange(arg_list, ArgIndex(info))
    /\ Finish(SlycotRaised("SlycotParameterError", FallbackMessage(arg_list, info), info))
    /\ UNCHANGED << params, checkvars, locals, ghost, ncalls, orig >>

\* the subscript is past the end of the list
FallbackIndexError ==
    /\ pc = "fallback"
    /\ FallbackApplies(info, arg_list)
    /\ ~InRange(arg_list, ArgIndex(info))
    /\ Finish(Raised("IndexError", "list index out of range"))
    /\ UNCHANGED << params, checkvars, locals, ghost, ncalls, orig >>

\* the function falls off its end
FallbackNone ==
    /\ pc = "fallback"
    /\ ~FallbackApplies(info, arg_list)
    /\ Finish(Returned)
    /\ UNCHANGED << params, checkvars, locals, ghost, ncalls, orig >>

\* the call is over: its frame, and with it every local, is gone
Unwind ==
    /\ pc = "done"
    /\ pc' = "idle"
    /\ info' = 0
    /\ arg_list' = << >>
    /\ docstring' = << >>
    /\ docline' = 0
    /\ section_indent' = -1
    /\ slycot_error' = ""
    /\ error_indent' = -1
    /\ infospec_indent' = -1
    /\ body_indent' = -1
    /\ info_eval' = FALSE
    /\ message' = ""
    /\ outcome' = NoOutcome
    /\ entry' = EmptyDict
    /\ reached' = {}
    /\ evaluated' = {}
    /\ matched' = 0
    /\ UNCHANGED << checkvars, ncalls, orig >>

Next ==
    \/ Call \/ Unwind
    \/ TitleSkip \/ TitleFound \/ Exhausted
    \/ Underline \/ UnderlineMissing
    \/ ScanEnd \/ ScanBlank \/ ScanSectionEnd \/ ScanLine \/ ScanReserved
    \/ ScanGuardFalse \/ ScanGuardError \/ ScanGuardTrue
    \/ MsgFirstNone \/ MsgFirst \/ MsgBody \/ MsgBodyBreak \/ MsgBodyEnd
    \/ Dispatch \/ DispatchFormatError \/ NoMatch
    \/ Fallback \/ FallbackIndexError \/ FallbackNone

Spec == Init /\ [][Next]_vars

(***************************************************************************)
(* Properties                                                              *)
(***************************************************************************)
Done == pc = "done"
NoDocstring == docstring = << >>

\* the text of the generic error that names one argument
GenericMessage(name) == "The following argument had an illegal value: " \o name
GenericError(name) ==
    [kind |-> "SlycotParameterError", msg |-> GenericMessage(name), info |-> info]

\* every guard the call evaluated came out false
AllFalse == \A r \in evaluated : r.result = "False"

\* C1: with a negative info, a non-empty arg_list and no docstring, or a
\* docstring in which no rule matches, the call raises SlycotParameterError
\* naming arg_list[-info-1], with the info it was given.
C1_GenericNamesArgument ==
    Done /\ info < 0 /\ arg_list # << >> /\ -info <= Len(arg_list)
         /\ (NoDocstring \/ AllFalse)
    => outcome = GenericError(arg_list[-info])

\* C2 as stated: with no documentation, a negative status code names the
\* element at 0-based position N + status_code of the N-element list.
C2_NamesFromEnd ==
    Done /\ NoDocstring /\ info < 0 /\ -info <= Len(arg_list)
    => outcome = GenericError(arg_list[Len(arg_list) + info + 1])

\* C2 amended: with no documentation, a negative status code with
\* -status_code <= N names the element at 0-based position -status_code - 1
\* of the N-element list, the (-status_code)-th argument counted from the start.
C2_NamesFromStart ==
    Done /\ NoDocstring /\ info < 0 /\ -info <= Len(arg_list)
    => outcome = GenericError(arg_list[-info])

\* status -1 with more than one name: the first name, not the last
C2_Witness ==
    Done /\ NoDocstring /\ info = -1 /\ Len(arg_list) > 1
         /\ outcome = GenericError(arg_list[1])
         /\ arg_list[1] # arg_list[Len(arg_list)]

\* C3: when the Raises section of a docstring ends, by a closing line or by
\* the end of the text, with no guard evaluated true, a negative status code
\* and a non-empty arg_list still raise the generic SlycotParameterError.
C3_SectionEndFallsBack ==
    Done /\ ~NoDocstring /\ section_indent >= 0 /\ AllFalse
         /\ info < 0 /\ arg_list # << >> /\ -info <= Len(arg_list)
    => outcome = GenericError(arg_list[-info])

\* the guard clause on line j of the docstring, and its predicate as evaluated
GuardAt(j) == IMatch(docstring[j], 0)
PredicateAt(j) == Replace(GuardAt(j).infospec, " = ", " == ")
GuardLines == {j \in 1..Len(docstring) : GuardAt(j).ok}

\* the first line of the message of the guard on line j: the text after the
\* guard, or the line below it when the guard line carries no text
MessageStart(j) ==
    IF Strip(GuardAt(j).text) # "" THEN Strip(GuardAt(j).text)
    ELSE IF j < Len(docstring) /\ MMatch(docstring[j + 1], GuardAt(j).indent + 1).ok
         THEN MMatch(docstring[j + 1], GuardAt(j).indent + 1).text
    ELSE ""

\* the call raised the message of the guard on line j
RaisedMessageOf(j) ==
    /\ outcome.kind \in ErrorNames
    /\ StartsWith(outcome.msg, "\n" \o Strip(Format(MessageStart(j), checkvars).s))

\* a guard below the matching one that eval would take to res
LaterGuardWould(res) ==
    \E j \in GuardLines : j > matched /\ Eval(PredicateAt(j), checkvars) = res

C4_FirstTrue ==
    matched # 0 =>
        /\ \A r \in evaluated : r.line <= matched
        /\ \A r \in evaluated : r.result = (IF r.line = matched THEN "True" ELSE "False")
        /\ Done => /\ outcome.kind \notin {"return", "RuntimeError"}
                   /\ outcome.kind \in ErrorNames => RaisedMessageOf(matched)

C4_InOrder ==
    \A n \in evaluated' \ evaluated : \A r \in evaluated : r.line < n.line

\* C4: guards are evaluated in document order and the first guard that is true
\* decides the outcome: every guard evaluated before it was false, no guard
\* below it is evaluated (so a later guard that would be true, or would fail
\* with a configuration error, has no effect), and the message raised is the
\* message of that guard.
C4_FirstTrueGuardDecides == [] C4_FirstTrue /\ [][C4_InOrder]_vars

\* a first guard matched while a later one would be true and another would fail
C4_Witness ==
    /\ Done /\ matched # 0
    /\ RaisedMessageOf(matched)
    /\ LaterGuardWould("True")
    /\ LaterGuardWould("NameError")
    /\ \E r \in evaluated : r.line < matched

\* C5: when the call has returned or raised, checkvars holds exactly the
\* bindings it held when the call was made; no binding e is left in it and a
\* binding e of the caller keeps its value.
C5_BindingsPreserved == Done => checkvars = entry

\* the names a predicate mentions, other than the e of e.info
RECURSIVE NamesOf(_)
NamesOf(toks) ==
    IF toks = << >> THEN {}
    ELSE (IF IsNameTok(AtomBase(toks[1])) /\ AtomBase(toks[1]) \notin Keywords
          THEN {AtomBase(toks[1])} ELSE {}) \cup NamesOf(Tail(toks))
Mentions(j) == NamesOf(Split(PredicateAt(j)))
MentionsUnbound(j) == Mentions(j) \ (DOMAIN entry \cup {"e"}) # {}
ConfigurationError(j) ==
    /\ outcome.kind = "RuntimeError"
    /\ Contains(outcome.msg, GuardAt(j).infospec)

\* C6 as stated: every guard the scan reached that mentions a name bound
\* neither by the caller nor as e, or that is no valid expression, makes the
\* call fail with a RuntimeError holding the predicate text.
C6_ReachedUnboundFails ==
    Done => \A j \in reached :
                MentionsUnbound(j) \/ ~SyntaxOK(PredicateAt(j)) => ConfigurationError(j)

\* C6: when the evaluation of a guard fails, on a name it looks up that is
\* bound neither by the caller nor as e, or on a predicate that is no valid
\* expression, the call fails with a RuntimeError (no SlycotError) whose text
\* contains the predicate as written; no guard was matched, no later guard is
\* evaluated and the generic fallback is not applied.
C6_EvalFailureIsConfigurationError ==
    /\ \A r \in evaluated : r.result \in {"NameError", "SyntaxError"} =>
           /\ Done /\ ConfigurationError(r.line)
           /\ matched = 0
           /\ \A q \in evaluated : q.line <= r.line
           /\ r.result = "NameError" => MentionsUnbound(r.line)
           /\ r.result = "SyntaxError" => ~SyntaxOK(PredicateAt(r.line))
    /\ Done /\ outcome.kind = "RuntimeError" =>
           \E r \in evaluated : r.result \in {"NameError", "SyntaxError"}

\* a guard failed on an unbound name after false guards, in a call that the
\* generic fallback would otherwise have answered
C6_Witness ==
    /\ Done /\ outcome.kind = "RuntimeError"
    /\ \E r \in evaluated :
        /\ r.result = "NameError"
        /\ \E q \in evaluated : q.line < r.line
    /\ info < 0 /\ arg_list # << >> /\ -info <= Len(arg_list)

\* the first line holding "Raises", 0 when there is none
TitleLine(doc) ==
    LET ts == {j \in 1..Len(doc) : Contains(doc[j], "Raises")}
    IN  IF ts = {} THEN 0 ELSE CHOOSE j \in ts : \A k \in ts : j <= k
NoTitle(doc) == TitleLine(doc) = 0
TitleIsLast(doc) == TitleLine(doc) = Len(doc)
NoUnderline(doc) ==
    TitleLine(doc) \in 1..(Len(doc) - 1) /\ ~Contains(doc[TitleLine(doc) + 1], "-")
NoHeader(doc) ==
    /\ TitleLine(doc) \in 1..(Len(doc) - 1)
    /\ \A j \in (TitleLine(doc) + 2)..Len(doc) : EMatch(doc[j]) = ""
EndsMidRule(doc) ==
    /\ Strip(doc[Len(doc)]) # ""
    /\ IMatch(doc[Len(doc)], 0).ok /\ Strip(IMatch(doc[Len(doc)], 0).text) = ""
Unexpected(doc) ==
    doc # << >> /\ (NoTitle(doc) \/ TitleIsLast(doc) \/ NoUnderline(doc)
                      \/ NoHeader(doc) \/ EndsMidRule(doc))

\* what the call does when no docstring is given
NoDocOutcome ==
    IF info < 0 /\ arg_list # << >>
    THEN IF -info <= Len(arg_list) THEN GenericError(arg_list[-info])
         ELSE Raised("IndexError", "list index out of range")
    ELSE Returned

\* C7: a docstring of unexpected structure (no "Raises" title, the title as
\* last line, no dash underline below the title, no exception header, or a
\* text ending in the middle of a rule) raises nothing but what the call
\* without docstring raises.
C7_UnexpectedDegrades ==
    Done /\ Unexpected(docstring) => outcome \in {Returned, NoDocOutcome}

\* C8: with status 0 the call returns when there is no docstring, or when the
\* docstring has guards and every guard evaluated was false.
C8_ZeroAllFalseReturns ==
    Done /\ info = 0 /\ (NoDocstring \/ (evaluated # {} /\ AllFalse))
        => outcome = Returned

\* status 0, an arg_list, several guards evaluated, all false, and the call returned
C8_Witness ==
    /\ Done /\ info = 0 /\ arg_list # << >>
    /\ Cardinality(evaluated) >= 2 /\ AllFalse
    /\ outcome = Returned

\* C9: a call with status 0 never raises.
C9_ZeroNeverRaises == Done /\ info = 0 => outcome = Returned

\* the exception kind of the last header above line j
HeadersAbove(j) == {h \in 1..(j - 1) : EMatch(docstring[h]) # ""}
HeaderAbove(j) ==
    EMatch(docstring[CHOOSE h \in HeadersAbove(j) : \A k \in HeadersAbove(j) : k <= h])
RuleRaised(j) ==
    /\ outcome.kind = HeaderAbove(j)
    /\ outcome.info = info
    /\ RaisedMessageOf(j)
    /\ ~StartsWith(outcome.msg, "The following argument")

\* C10: whenever a guard matched, the call raises an error of the kind of the
\* last header above that guard, with the status code as info and the message
\* of the guard, also for a negative status with an arg_list.
C10_MatchRaisesHeaderKind == Done /\ matched # 0 => RuleRaised(matched)

\* the guard on line j carries exactly the reserved predicate
IsReserved(j) == GuardAt(j).infospec = "e.info = -i"

C11_Skipped ==
    \A j \in reached : IsReserved(j) =>
        IF "i" \notin DOMAIN entry
        THEN /\ \A r \in evaluated : r.line # j
             /\ matched # j
             /\ Done /\ outcome.kind = "RuntimeError" =>
                    \E r \in evaluated : r.line # j /\ ConfigurationError(r.line)
        ELSE \E r \in evaluated :
                /\ r.line = j
                /\ r.result = (IF info = -(entry["i"].v) THEN "True" ELSE "False")
                /\ (r.result = "True") = (matched = j)

\* the step that reaches a reserved guard with i unbound moves to the next
\* line and stays in the scan
C11_GoesOn ==
    \A j \in reached' \ reached :
        IsReserved(j) /\ "i" \notin DOMAIN entry =>
            pc' = "scan" /\ docline' = j /\ outcome' = outcome /\ checkvars' = checkvars

\* C11: a guard whose predicate is exactly `e.info = -i` is skipped without
\* being evaluated when the bindings have no i: it neither matches nor raises
\* a configuration error and the scan goes on with the next line; when i is
\* bound it is evaluated like any other guard.
C11_ReservedPredicate == [] C11_Skipped /\ [][C11_GoesOn]_vars

\* the reserved guard was skipped with i unbound, where it would have decided
\* had i been bound, and a guard below it was evaluated
C11_Witness ==
    /\ Done /\ "i" \notin DOMAIN entry /\ info < 0
    /\ \E j \in reached :
        /\ IsReserved(j)
        /\ \E r \in evaluated : r.line > j

\* the call of the example in the docstring of raise_if_slycot_error: fun(5)
ExampleCall == Done /\ docstring = DocExample /\ entry = VarsNM /\ info = 5

fallback(i, a) ==
    IF i < 0 /\ a # << >>
    THEN IF InRange(a, -i - 1)
         THEN SlycotRaised("SlycotParameterError",
                  "The following argument had an illegal value: " \o GetItem(a, -i - 1), i)
         ELSE Raised("IndexError", "list index out of range")
    ELSE Returned

\* lines 183-185
dispatch(i, a, kind, msg, d) ==
    IF Format(msg, d).err = ""
    THEN SlycotRaised(kind, "\n" \o Strip(Format(msg, d).s), i)
    ELSE Raised(Format(msg, d).err, "")

\* lines 176-179: the lines of the body from line k on
RECURSIVE body(_, _, _, _)
body(doc, k, bi, msg) ==
    IF k > Len(doc) \/ EndsBody(doc[k], bi) THEN msg
    ELSE body(doc, k + 1, bi, msg \o Suffix(doc[k], bi) \o "\n")

\* lines 167-175: the message of the guard g on line k
collect(doc, k, g) ==
    IF k = Len(doc) \/ ~MMatch(doc[k + 1], g.indent + 1).ok
    THEN Strip(g.text) \o "\n"
    ELSE body(doc, k + 2, MMatch(doc[k + 1], g.indent + 1).indent,
              Strip(g.text) \o "\n" \o MMatch(doc[k + 1], g.indent + 1).text \o "\n")

\* lines 127-166: the for loop from line k on, under the header kind at indent ei
RECURSIVE scan(_, _, _, _, _, _, _, _)
scan(i, a, doc, d, k, si, kind, ei) ==
    IF k > Len(doc) THEN fallback(i, a)
    ELSE IF Strip(doc[k]) = "" THEN scan(i, a, doc, d, k + 1, si, kind, ei)
    ELSE IF ClosesSection(doc[k], si) THEN Returned
    ELSE LET kind2 == IF EMatch(doc[k]) # "" THEN EMatch(doc[k]) ELSE kind
             ei2   == IF EMatch(doc[k]) # "" THEN LeadingSpaces(doc[k]) ELSE ei
             g     == IF kind2 # "" THEN IMatch(doc[k], ei2 + 1)
                      ELSE [ok |-> FALSE, indent |-> 0, infospec |-> "", text |-> ""]
             d2    == EvalGlobals(DictSet(d, "e", ErrVal(i)))
             r     == Eval(Replace(g.infospec, " = ", " == "), d2)
         IN  IF ~g.ok THEN scan(i, a, doc, d, k + 1, si, kind2, ei2)
             ELSE IF g.infospec = "e.info = -i" /\ "i" \notin DOMAIN d
                  THEN scan(i, a, doc, d, k + 1, si, kind2, ei2)
             ELSE IF r = "True" THEN dispatch(i, a, kind2, collect(doc, k, g), d2)
             ELSE IF r = "False" THEN scan(i, a, doc, d2, k + 1, si, kind2, ei2)
             ELSE Raised("RuntimeError",
                         (IF r = "NameError" THEN "Unknown variable in infospec: "
                          ELSE "Invalid infospec: ") \o g.infospec)

\* lines 113-126, then the loop
raise_if_slycot_error(i, a, doc, d) ==
    IF doc = << >> \/ TitleLine(doc) \in {0, Len(doc)} THEN fallback(i, a)
    ELSE IF Find(doc[TitleLine(doc) + 1], "-") = -1
         THEN Raised("ValueError", "substring not found")
    ELSE scan(i, a, doc, d, TitleLine(doc) + 2,
              Find(doc[TitleLine(doc) + 1], "-"), "", -1)

\* how each call ends when made alone with the caller's bindings b
Alone ==
    [i \in Infos, a \in ArgLists, d \in Docs, b \in {DefaultVars} \cup Bindings |->
        raise_if_slycot_error(i, a, d, b)]

\* C13: in a run of calls that are given the same dict, each call ends as the
\* same call does when made alone with a fresh copy of the caller's original
\* bindings: same return, or same kind, message and info of the error.
C13_CallsIndependent == Done => outcome = Alone[info, arg_list, docstring, orig]

\* a later call of the run, given a dict an earlier call has written to, in
\* which a guard was evaluated and an error of the taxonomy was raised
C13_Witness ==
    /\ Done /\ ncalls >= 2
    /\ entry # orig /\ "e" \in DOMAIN entry /\ entry["e"] # ErrVal(info)
    /\ evaluated # {}
    /\ outcome.kind \in ErrorNames

\* the title line and the indentation of every line, for each text of Docs
TitleLineOf == [d \in Docs |-> TitleLine(d)]
IndentOf == [d \in Docs |-> [j \in 1..Len(d) |-> LeadingSpaces(d[j])]]

\* the non-blank lines below the underline, once the underline has been read
SectionLines ==
    IF section_indent < 0 THEN {}
    ELSE {j \in (TitleLineOf[docstring] + 2)..Len(docstring) :
              IndentOf[docstring][j] < Len(docstring[j])}
AtOrLeft == {j \in SectionLines : IndentOf[docstring][j] <= section_indent}
\* lines with a character other than whitespace in their first section_indent
\* columns; with section_indent = 0 no line has whitespace there
LeftOf == {j \in SectionLines :
              section_indent = 0 \/ IndentOf[docstring][j] < section_indent}
NothingFrom(j) ==
    /\ docline <= j
    /\ \A k \in reached : k < j
    /\ \A r \in evaluated : r.line < j
    /\ matched < j

Collected == pc \in {"dispatch", "done"} /\ matched # 0
NonBlank(k) == Strip(docstring[k]) # ""
FirstOf(S, none) == IF S = {} THEN none ELSE CHOOSE k \in S : \A j \in S : k <= j
\* the first line below the guard that is not deeper than the guard
StopAtGuard ==
    FirstOf({k \in (matched + 1)..Len(docstring) :
                NonBlank(k) /\ LeadingSpaces(docstring[k]) <= GuardAt(matched).indent},
            Len(docstring) + 1)
\* the indentation of the first line below the guard
FirstBodyIndent == LeadingSpaces(docstring[matched + 1])
\* the first line below the first body line that is not as deep as that line
StopAtBody ==
    FirstOf({k \in (matched + 2)..Len(docstring) :
                NonBlank(k) /\ LeadingSpaces(docstring[k]) < FirstBodyIndent},
            Len(docstring) + 1)
RECURSIVE Joined(_, _, _)
Joined(from, to, bi) ==
    IF from > to THEN ""
    ELSE Suffix(docstring[from], bi) \o "\n" \o Joined(from + 1, to, bi)

\* C15 as stated: the message of a matched guard holds the text of every line
\* below the guard up to the first line not deeper than the guard, so a line
\* deeper than the guard but less deep than the first continuation line is
\* part of it.
C15_BodyWhileDeeperThanGuard ==
    Collected =>
        \A k \in (matched + 1)..(StopAtGuard - 1) :
            NonBlank(k) => Contains(message, Strip(docstring[k]))

\* C15: the message of a matched guard is the guard line's trailing text,
\* stripped, and, when the line below the guard is deeper than the guard, that
\* line and every line after it up to the first non-blank line that is less
\* deep than that first continuation line (or the end of the text), each cut
\* at the first continuation line's indentation and ended by a newline; a
\* line deeper than the guard but less deep than the first continuation line
\* ends the message and is no part of it.
C15_BodyWhileAsDeepAsFirstLine ==
    Collected =>
        message = Strip(GuardAt(matched).text) \o "\n" \o
                  (IF matched < Len(docstring)
                       /\ FirstBodyIndent > GuardAt(matched).indent
                   THEN Joined(matched + 1, StopAtBody - 1, FirstBodyIndent)
                   ELSE "")

\* a message of several lines, one of them empty, ended by a line that is
\* deeper than the guard but less deep than the first continuation line
C15_Witness ==
    /\ Done /\ matched # 0 /\ outcome.kind \in ErrorNames
    /\ StopAtBody <= Len(docstring)
    /\ StopAtBody - matched >= 4
    /\ LeadingSpaces(docstring[StopAtBody]) > GuardAt(matched).indent
    /\ \E k \in (matched + 1)..(StopAtBody - 1) : docstring[k] = ""
    /\ ~Contains(outcome.msg, Strip(docstring[StopAtBody]))

\* the left margin of a text: the least indentation of its non-empty lines
Margin(doc) ==
    LET ns == {LeadingSpaces(doc[j]) : j \in {k \in 1..Len(doc) : doc[k] # ""}}
    IN  IF ns = {} THEN 0 ELSE CHOOSE n \in ns : \A m \in ns : n <= m
\* the text moved k columns to the left, k no more than its margin
Dedent(doc, k) == [j \in 1..Len(doc) |-> IF doc[j] = "" THEN "" ELSE Suffix(doc[j], k)]

\* C16: the call ends the same way for the docstring moved any number of
\* columns to the right, and any number of columns to the left down to
\* column 0: same return, or same kind, message and info of the error.
C16_MarginIndependent ==
    Done /\ ~NoDocstring =>
        /\ \A k \in 1..MaxMargin :
               outcome = raise_if_slycot_error(info, arg_list, Indent(docstring, k), orig)
        /\ \A k \in 1..Margin(docstring) :
               outcome = raise_if_slycot_error(info, arg_list, Dedent(docstring, k), orig)

\* C17: with a negative info and no guard of the docstring matching (no
\* docstring, or guards evaluated and all false), the generic
\* SlycotParameterError is raised only when 1 <= -info <= Len(arg_list); with
\* -info > Len(arg_list) and a non-empty arg_list the call ends in an
\* IndexError, and with an empty arg_list it returns.
C17_FallbackRange ==
    /\ Done /\ StartsWith(outcome.msg, "The following argument")
        => 1 <= -info /\ -info <= Len(arg_list)
    /\ Done /\ info < 0 /\ (NoDocstring \/ (evaluated # {} /\ AllFalse)) =>
        IF arg_list = << >> THEN outcome = Returned
        ELSE IF -info > Len(arg_list) THEN outcome.kind = "IndexError"
        ELSE TRUE

====
